---- MODULE Spec2Model ----
(***************************************************************************)
(* State-machine model of the INA power-monitor library (src/src/INA.cpp,  *)
(* src/src/INA.h): device scan and classification in begin(), the EEPROM   *)
(* device table with its one-entry cache, initDevice() and the per-device  *)
(* or broadcast control operations.                                        *)
(*                                                                         *)
(* Every public method is one action.  The body of a method is a chain of  *)
(* operators over a machine-state record (fields hw, ee, ina, inaEE, cur,  *)
(* cnt and the per-call logs); the action unpacks the resulting record     *)
(* into the primed variables.  Register values are 16-bit unsigned bit     *)
(* patterns kept as naturals.                                              *)
(***************************************************************************)
EXTENDS Integers, Sequences, FiniteSets, TLC

(***************************************************************************)
(* Bounds of the model.                                                    *)
(***************************************************************************)
\* Number of populated-or-empty bus addresses modelled, starting at 0x40.
\* The addresses above them are empty: the probe fails and nothing happens.
NumAddr == 2
\* Largest EEPROM capacity modelled, in device records (maxDevices).
MaxCapacity == 3
\* Number of public calls made after the first begin().
MaxOps == 1

(***************************************************************************)
(* Program constants (INA.h).                                              *)
(***************************************************************************)
UINT8_MAX == 255
INA219 == 0
INA226 == 1
INA230 == 2
INA231 == 3
INA260 == 4
INA3221_0 == 5
INA3221_1 == 6
INA3221_2 == 7
UNKNOWN == 8

INA_CONFIGURATION_REGISTER == 0
INA_BUS_VOLTAGE_REGISTER == 2
INA_POWER_REGISTER == 3
INA_CALIBRATION_REGISTER == 5
INA_MASK_ENABLE_REGISTER == 6
INA_ALERT_LIMIT_REGISTER == 7
INA_DIE_ID_REGISTER == 255
INA_RESET_DEVICE == 32768
INA_CONFIG_MODE_MASK == 7
INA_ALERT_MASK == 1023
INA_ALERT_SHUNT_OVER_VOLT_BIT == 15
INA_ALERT_SHUNT_UNDER_VOLT_BIT == 14
INA_ALERT_BUS_OVER_VOLT_BIT == 13
INA_ALERT_BUS_UNDER_VOLT_BIT == 12
INA_ALERT_POWER_OVER_WATT_BIT == 11
INA_ALERT_CONVERSION_RDY_BIT == 10
INA_DEFAULT_OPERATING_MODE == 7
INA219_SHUNT_VOLTAGE_REGISTER == 1
INA219_CURRENT_REGISTER == 4
INA219_BUS_VOLTAGE_LSB == 400
INA219_SHUNT_VOLTAGE_LSB == 100
INA219_CONFIG_AVG_MASK == 2040
INA219_CONFIG_PG_MASK == 59391
INA219_CONFIG_BADC_MASK == 1920
INA219_CONFIG_SADC_MASK == 56
INA219_BRNG_BIT == 13
INA219_PG_FIRST_BIT == 11
INA226_SHUNT_VOLTAGE_REGISTER == 1
INA226_CURRENT_REGISTER == 4
INA226_BUS_VOLTAGE_LSB == 125
INA226_SHUNT_VOLTAGE_LSB == 25
INA226_CONFIG_AVG_MASK == 3584
INA226_DIE_ID_VALUE == 8800
INA226_CONFIG_BADC_MASK == 448
INA226_CONFIG_SADC_MASK == 24
INA260_SHUNT_VOLTAGE_REGISTER == 0
INA260_CURRENT_REGISTER == 1
INA260_BUS_VOLTAGE_LSB == 125
INA260_CONFIG_BADC_MASK == 448
INA260_CONFIG_SADC_MASK == 56
INA3221_SHUNT_VOLTAGE_REGISTER == 1
INA3221_BUS_VOLTAGE_LSB == 800
INA3221_SHUNT_VOLTAGE_LSB == 400
INA3221_MASK_REGISTER == 15
\* Post-reset configuration-register signatures tested by begin().
SIG_INA219 == 14751
SIG_INA226 == 16679
SIG_INA260 == 24871
SIG_INA3221 == 28967
\* First bus address scanned by begin().
FirstAddress == 64

(***************************************************************************)
(* Fixed-width arithmetic.                                                 *)
(***************************************************************************)
Pow2(n) == 2 ^ n
U8(x) == x % 256
U16(x) == x % 65536

\* floor(a * b / d) and the remainder, by binary decomposition of b, so that
\* no intermediate exceeds 2 * d + a: the code computes these products in
\* 64 bits, wider than the integers of the model checker.
RECURSIVE MulDivRem(_, _, _)
MulDivRem(a, b, d) ==
  IF b = 0 THEN [q |-> 0, r |-> 0]
  ELSE LET h == MulDivRem(a, b \div 2, d)
           r2 == 2 * h.r + (b % 2) * (a % d)
       IN [q |-> 2 * h.q + (b % 2) * (a \div d) + r2 \div d, r |-> r2 % d]

MulDiv(a, b, d) == MulDivRem(a, b, d).q

RECURSIVE BitAnd(_, _)
BitAnd(x, y) ==
  IF x = 0 \/ y = 0 THEN 0
  ELSE (x % 2) * (y % 2) + 2 * BitAnd(x \div 2, y \div 2)

\* Integer division of C: the quotient is truncated towards zero.
TruncDivC(a, b) == IF a >= 0 THEN a \div b ELSE 0 - ((0 - a) \div b)

BitOr(x, y) == x + y - BitAnd(x, y)
BitNot16(x) == 65535 - U16(x)
bitRead(x, n) == (x \div Pow2(n)) % 2
bitClear(x, n) == x - bitRead(x, n) * Pow2(n)
bitSet(x, n) == x + (1 - bitRead(x, n)) * Pow2(n)


(***************************************************************************)
(* The bus participants.  A participant answers the zero-length probe; a   *)
(* chip of the INA family resets itself (all registers back to power-on    *)
(* defaults) when bit 15 of its configuration register is written, any     *)
(* other participant ("sticky") simply stores what is written.  dflt is    *)
(* the power-on configuration value, die the die-ID register, cfg0 the     *)
(* configuration register content before the first begin().                *)
(***************************************************************************)
BusAddrs == FirstAddress .. (FirstAddress + NumAddr - 1)

Profiles ==
  { [kind |-> "none",    present |-> FALSE, sticky |-> FALSE, dflt |-> 0,           die |-> 0,    cfg0 |-> 0],
    [kind |-> "sticky",  present |-> TRUE,  sticky |-> TRUE,  dflt |-> 0,           die |-> 0,    cfg0 |-> 4660],
    [kind |-> "other",   present |-> TRUE,  sticky |-> FALSE, dflt |-> 16680,       die |-> 8800, cfg0 |-> 341],
    [kind |-> "INA219",  present |-> TRUE,  sticky |-> FALSE, dflt |-> SIG_INA219,  die |-> 0,    cfg0 |-> SIG_INA219],
    [kind |-> "INA226",  present |-> TRUE,  sticky |-> FALSE, dflt |-> SIG_INA226,  die |-> INA226_DIE_ID_VALUE, cfg0 |-> SIG_INA226],
    [kind |-> "INA230",  present |-> TRUE,  sticky |-> FALSE, dflt |-> SIG_INA226,  die |-> 8832, cfg0 |-> SIG_INA226],
    [kind |-> "INA231",  present |-> TRUE,  sticky |-> FALSE, dflt |-> SIG_INA226,  die |-> 0,    cfg0 |-> SIG_INA226],
    [kind |-> "INA260",  present |-> TRUE,  sticky |-> FALSE, dflt |-> SIG_INA260,  die |-> 8816, cfg0 |-> SIG_INA260],
    [kind |-> "INA3221", present |-> TRUE,  sticky |-> FALSE, dflt |-> SIG_INA3221, die |-> 12832, cfg0 |-> SIG_INA3221] }

\* Registers of one participant that the library writes.
HwRegs(cfg, cal, mask, limit) == [cfg |-> cfg, cal |-> cal, mask |-> mask, limit |-> limit]

Present(s, a) == a \in BusAddrs /\ s.bus[a].present

\* Effect of a register write on the participant at address a.
\* Registers 1 to 6 of an INA3221 are its read-only measurement registers.
Measured3221(s, reg, a) == s.bus[a].kind = "INA3221" /\ reg \in 1 .. 6

HwWrite(s, reg, data, a) ==
  IF ~Present(s, a) \/ Measured3221(s, reg, a) THEN s.hw
  ELSE IF reg = INA_CONFIGURATION_REGISTER /\ bitRead(data, 15) = 1 /\ ~s.bus[a].sticky
         THEN [s.hw EXCEPT ![a] = HwRegs(s.bus[a].dflt, 0, 0, 0)]
  ELSE IF reg = INA_CONFIGURATION_REGISTER THEN [s.hw EXCEPT ![a].cfg = data]
  ELSE IF reg = INA_CALIBRATION_REGISTER THEN [s.hw EXCEPT ![a].cal = data]
  ELSE IF reg = INA_MASK_ENABLE_REGISTER THEN [s.hw EXCEPT ![a].mask = data]
  ELSE IF reg = INA_ALERT_LIMIT_REGISTER THEN [s.hw EXCEPT ![a].limit = data]
  ELSE s.hw

\* Value a register read returns; raw is what the measurement registers of
\* each address hold at the time of the call.  With nobody at the address
\* both Wire.read() calls return -1.
HwRead(s, reg, a, raw) ==
  IF ~Present(s, a) THEN 65535
  ELSE IF Measured3221(s, reg, a) THEN raw[a]
  ELSE IF reg = INA_CONFIGURATION_REGISTER THEN s.hw[a].cfg
  ELSE IF reg = INA_CALIBRATION_REGISTER THEN s.hw[a].cal
  ELSE IF reg = INA_MASK_ENABLE_REGISTER THEN s.hw[a].mask
  ELSE IF reg = INA_ALERT_LIMIT_REGISTER THEN s.hw[a].limit
  ELSE IF reg = INA_DIE_ID_REGISTER THEN s.bus[a].die
  ELSE raw[a]

(***************************************************************************)
(* readWord / writeWord.  writeWord appends to the per-call write log.     *)
(***************************************************************************)
readWord(s, addr, deviceAddr, raw) == U16(HwRead(s, addr, deviceAddr, raw))

writeWord(s, addr, data, deviceAddr) ==
  [s EXCEPT !.hw = HwWrite(s, addr, U16(data), deviceAddr),
            !.wlog = Append(@, <<deviceAddr, addr, U16(data)>>)]

(***************************************************************************)
(* inaEEPROM / inaDet.  Fields the constructor does not assign keep the    *)
(* indeterminate content u of the temporary it builds.                     *)
(***************************************************************************)
Derived(bvr, svr, cr, slsb, blsb, clsb, plsb) ==
  [busVoltageRegister |-> bvr, shuntVoltageRegister |-> svr, currentRegister |-> cr,
   shuntVoltage_LSB |-> slsb, busVoltage_LSB |-> blsb, current_LSB |-> clsb, power_LSB |-> plsb]

\* Contents an unassigned temporary may have.
UninitDerived == { Derived(0, 0, 0, 0, 0, 0, 0), Derived(7, 7, 7, 65535, 65535, 305419896, 305419896) }

Det(ee, d) ==
  [type |-> ee.type, operatingMode |-> ee.operatingMode, address |-> ee.address,
   maxBusAmps |-> ee.maxBusAmps, microOhmR |-> ee.microOhmR,
   busVoltageRegister |-> d.busVoltageRegister, shuntVoltageRegister |-> d.shuntVoltageRegister,
   currentRegister |-> d.currentRegister, shuntVoltage_LSB |-> d.shuntVoltage_LSB,
   busVoltage_LSB |-> d.busVoltage_LSB, current_LSB |-> d.current_LSB, power_LSB |-> d.power_LSB]

\* The persisted subset of a device detail.
RecordOf(d) ==
  [type |-> d.type, operatingMode |-> d.operatingMode, address |-> d.address,
   maxBusAmps |-> d.maxBusAmps, microOhmR |-> d.microOhmR]

\* current_LSB = (uint64_t)maxBusAmps * 1000000000 / 32767; with the 5-bit
\* maxBusAmps it is at most 946073 and power_LSB at most 25 times that, so
\* neither wraps in its 32-bit field.
CurrentLSB(maxBusAmps) == MulDiv(1000000000, maxBusAmps, 32767)

\* The copied record fields: the shunt resistance is copied from maxBusAmps.
inaDetFields(inaEE) ==
  [type |-> inaEE.type, operatingMode |-> inaEE.operatingMode, address |-> inaEE.address,
   maxBusAmps |-> inaEE.maxBusAmps, microOhmR |-> inaEE.maxBusAmps]

\* The switch on the type; INA3221_0 falls through both following cases.
inaDetDerivedMutant(type, maxBusAmps, u) ==
  IF type \in {INA219, INA226, INA230, INA231} THEN
    Derived(INA_BUS_VOLTAGE_REGISTER, INA226_SHUNT_VOLTAGE_REGISTER, INA226_CURRENT_REGISTER,
            INA226_SHUNT_VOLTAGE_LSB, INA226_BUS_VOLTAGE_LSB,
            CurrentLSB(maxBusAmps), 25 * CurrentLSB(maxBusAmps))
  ELSE IF type = INA260 THEN
    Derived(INA_BUS_VOLTAGE_REGISTER, INA260_SHUNT_VOLTAGE_REGISTER, INA260_CURRENT_REGISTER,
            u.shuntVoltage_LSB, INA260_BUS_VOLTAGE_LSB, 1250000, 10000000)
  ELSE u

inaDetDerived(type, maxBusAmps, u) ==
  IF type = INA219 THEN
    Derived(INA_BUS_VOLTAGE_REGISTER, INA219_SHUNT_VOLTAGE_REGISTER, INA219_CURRENT_REGISTER,
            INA219_SHUNT_VOLTAGE_LSB, INA219_BUS_VOLTAGE_LSB,
            CurrentLSB(maxBusAmps), 20 * CurrentLSB(maxBusAmps))
  ELSE IF type \in {INA226, INA230, INA231} THEN
    Derived(INA_BUS_VOLTAGE_REGISTER, INA226_SHUNT_VOLTAGE_REGISTER, INA226_CURRENT_REGISTER,
            INA226_SHUNT_VOLTAGE_LSB, INA226_BUS_VOLTAGE_LSB,
            CurrentLSB(maxBusAmps), 25 * CurrentLSB(maxBusAmps))
  ELSE IF type = INA260 THEN
    Derived(INA_BUS_VOLTAGE_REGISTER, INA260_SHUNT_VOLTAGE_REGISTER, INA260_CURRENT_REGISTER,
            u.shuntVoltage_LSB, INA260_BUS_VOLTAGE_LSB, 1250000, 10000000)
  ELSE IF type = INA3221_0 THEN
    Derived((INA_BUS_VOLTAGE_REGISTER + 2 + 2) % 8, (INA3221_SHUNT_VOLTAGE_REGISTER + 2 + 2) % 8, 0,
            INA3221_SHUNT_VOLTAGE_LSB, INA3221_BUS_VOLTAGE_LSB, 0, 0)
  ELSE IF type = INA3221_1 THEN
    [u EXCEPT !.busVoltageRegister = (@ + 2 + 2) % 8, !.shuntVoltageRegister = (@ + 2 + 2) % 8]
  ELSE IF type = INA3221_2 THEN
    [u EXCEPT !.busVoltageRegister = (@ + 2) % 8, !.shuntVoltageRegister = (@ + 2) % 8]
  ELSE u

inaDet(inaEE, u) ==
  LET f == inaDetFields(inaEE) IN Det(f, inaDetDerived(f.type, f.maxBusAmps, u))

\* A slot the library has not written yet: an erased EEPROM reads all ones.
\* (The two 32-bit fields are shown as 2^31-1; nothing ever reads them.)
ErasedRecord ==
  Det([type |-> 15, operatingMode |-> 15, address |-> 127, maxBusAmps |-> 31, microOhmR |-> 1048575],
      Derived(7, 7, 7, 65535, 65535, 2147483647, 2147483647))

(***************************************************************************)
(* The device table in EEPROM and its one-entry cache.                     *)
(***************************************************************************)
Slots(maxDevices) == 0 .. (maxDevices - 1)
NoSlot == 0 - 1

\* readInafromEEPROM: on a miss the slot is read, then the detail is
\* rebuilt from the member inaEE.
readInafromEEPROM(s, deviceNumber, u) ==
  IF deviceNumber # s.cur
    THEN [s EXCEPT !.eelog = Append(@, <<"get", deviceNumber>>),
                   !.cur = deviceNumber,
                   !.ina = inaDet(s.inaEE, u)]
    ELSE s

\* writeInatoEEPROM: EEPROM.put of the whole detail at deviceNumber*sizeof(ina).
\* A put beyond the capacity lands outside the table or, where the EEPROM
\* address wraps, on some slot k of it (clobber).
EEPROMput(ee, deviceNumber, ina, clobber) ==
  IF deviceNumber \in DOMAIN ee THEN [ee EXCEPT ![deviceNumber] = ina]
  ELSE IF clobber \in DOMAIN ee THEN [ee EXCEPT ![clobber] = ina]
  ELSE ee

writeInatoEEPROM(s, deviceNumber, clobber) ==
  [s EXCEPT !.eelog = Append(@, <<"put", deviceNumber>>),
            !.ee = EEPROMput(s.ee, deviceNumber, s.ina, clobber)]


(***************************************************************************)
(* What the environment decides during one call: raw[a] is the content of  *)
(* the measurement registers of address a, dz the 16-bit result a division *)
(* by zero leaves in calibration, u the content of an unassigned           *)
(* temporary, clobber the slot hit by an out-of-range EEPROM.put.          *)
(***************************************************************************)
RawValues == {3200, 65528}
DivZeroValues == {0, 65535}

\* dz and u are properties of the build (platform and compiler): they are
\* fixed for a run.
Builds == [dz : DivZeroValues, u : UninitDerived]

\* The same raw reading at every address (one supply rail).
RawCall == { [a \in BusAddrs |-> v] : v \in RawValues }

Env(build, raw, clobber) == [raw |-> raw, dz |-> build.dz, u |-> build.u, clobber |-> clobber]

(***************************************************************************)
(* getBusMilliVolts: returns the new machine state and the value.          *)
(***************************************************************************)
BusMilliVolts(ina, rawWord) ==
  LET shifted == IF ina.type \in {INA3221_0, INA3221_1, INA3221_2, INA219}
                   THEN rawWord \div 8 ELSE rawWord
  IN U16(MulDiv(shifted, ina.busVoltage_LSB, 100))

\* Triggered mode with the bus measurement enabled.
BusTriggered(mode) == bitRead(mode, 2) = 0 /\ bitRead(mode, 1) = 1

\* The method after the device has been loaded into ina.
BusReading(s, e) ==
  [st  |-> IF BusTriggered(s.ina.operatingMode)
             THEN writeWord(s, INA_CONFIGURATION_REGISTER,
                            readWord(s, INA_CONFIGURATION_REGISTER, s.ina.address, e.raw),
                            s.ina.address)
             ELSE s,
   val |-> BusMilliVolts(s.ina, readWord(s, s.ina.busVoltageRegister, s.ina.address, e.raw))]

getBusMilliVolts(s, deviceNumber, e) == BusReading(readInafromEEPROM(s, deviceNumber, e.u), e)

(***************************************************************************)
(* getShuntMicroVolts and the branch of getBusMicroAmps it uses: each      *)
(* returns the new machine state and the value.                            *)
(***************************************************************************)
\* The int16_t readWord returns, widened to 32 bits.
S16(word) == IF word >= 32768 THEN word - 65536 ELSE word

\* a * b / d in 64 bits with the truncation towards zero of C, b and d positive.
TruncMulDiv(a, b, d) == IF a >= 0 THEN MulDiv(a, b, d) ELSE 0 - MulDiv(0 - a, b, d)

\* getBusMicroAmps for a type other than the INA3221 channels.
BusMicroAmps(ina, rawWord) == TruncMulDiv(S16(rawWord), ina.current_LSB, 1000)

\* (shuntVoltage>>3) & 0xE000 on a negative reading: the shift keeps the sign,
\* the mask keeps bits 13 to 15 of the result only.
ShiftNegative(shuntVoltage) == BitAnd((65536 + shuntVoltage) \div 8 + 57344, 57344)

\* The reading after the INA3221 adjustment.
ShuntShifted(ina, shuntVoltage) ==
  IF ina.type \in {INA3221_0, INA3221_1, INA3221_2}
    THEN IF shuntVoltage < 0 THEN ShiftNegative(shuntVoltage) ELSE shuntVoltage \div 8
    ELSE shuntVoltage

ShuntMicroVolts(ina, shuntWord, currentWord) ==
  IF ina.type = INA260
    THEN TruncDivC(BusMicroAmps(ina, currentWord), 200)
    ELSE TruncDivC(ShuntShifted(ina, S16(shuntWord)) * ina.shuntVoltage_LSB, 10)

\* Triggered mode with the shunt measurement enabled.
ShuntTriggered(mode) == bitRead(mode, 2) = 0 /\ bitRead(mode, 0) = 1

\* The method after the device has been loaded into ina.
ShuntReading(s, e) ==
  [st  |-> IF ShuntTriggered(s.ina.operatingMode)
             THEN writeWord(s, INA_CONFIGURATION_REGISTER,
                            readWord(s, INA_CONFIGURATION_REGISTER, s.ina.address, e.raw),
                            s.ina.address)
             ELSE s,
   val |-> ShuntMicroVolts(s.ina,
                           readWord(s, s.ina.shuntVoltageRegister, s.ina.address, e.raw),
                           readWord(s, s.ina.currentRegister, s.ina.address, e.raw))]

getShuntMicroVolts(s, deviceNumber, e) == ShuntReading(readInafromEEPROM(s, deviceNumber, e.u), e)

(***************************************************************************)
(* initDevice.                                                             *)
(***************************************************************************)
\* calibration = K / (current_LSB * microOhmR / 100000), kept in 16 bits.
Calibration(K, ina, dz) ==
  LET divisor == MulDiv(ina.current_LSB, ina.microOhmR, 100000)
  IN IF divisor = 0 THEN dz ELSE U16(K \div divisor)

ProgrammableGain(ina) ==
  LET maxShuntmV == U16(MulDiv(ina.microOhmR, ina.maxBusAmps, 1000))
  IN IF maxShuntmV <= 40 THEN 0
     ELSE IF maxShuntmV <= 80 THEN 1
     ELSE IF maxShuntmV <= 160 THEN 2
     ELSE 3

\* tempRegister: the default configuration with the gain bits replaced.
GainConfig(ina) ==
  BitOr(BitAnd(SIG_INA219, INA219_CONFIG_PG_MASK), ProgrammableGain(ina) * Pow2(INA219_PG_FIRST_BIT))

\* The bus range is lowered to 16V when the bus voltage g.val just read allows.
BusRange(g, tempRegister) ==
  IF g.val > 20 /\ g.val < 16000
    THEN writeWord(g.st, INA_CONFIGURATION_REGISTER, bitClear(tempRegister, INA219_BRNG_BIT),
                   g.st.ina.address)
    ELSE g.st

initINA219(s, deviceNumber, e) ==
  BusRange(getBusMilliVolts(
             writeWord(writeWord(s, INA_CALIBRATION_REGISTER, Calibration(409600000, s.ina, e.dz),
                                 s.ina.address),
                       INA_CONFIGURATION_REGISTER, GainConfig(s.ina), s.ina.address),
             deviceNumber, e),
           GainConfig(s.ina))

\* The switch on the type, after the record has been stored.
initRegisters(s, deviceNumber, e) ==
  IF s.ina.type = INA219 THEN initINA219(s, deviceNumber, e)
  ELSE IF s.ina.type \in {INA226, INA230, INA231}
    THEN writeWord(s, INA_CALIBRATION_REGISTER, Calibration(51200000, s.ina, e.dz), s.ina.address)
  ELSE s

initDevice(s, deviceNumber, e) ==
  initRegisters(writeInatoEEPROM([s EXCEPT !.ina.operatingMode = INA_DEFAULT_OPERATING_MODE],
                                 deviceNumber, e.clobber),
                deviceNumber, e)

(***************************************************************************)
(* begin: the scan (first call) and the re-entry path.                     *)
(***************************************************************************)
\* The decision tree over the post-reset configuration value; die is what
\* the die-ID register reads.
ClassifyMutant(tempRegister, die) ==
  IF tempRegister = SIG_INA219 THEN INA219
  ELSE IF tempRegister = SIG_INA226
    THEN IF die = INA226_DIE_ID_VALUE THEN INA226
         ELSE IF die = 0 THEN INA230
         ELSE INA231
  ELSE IF tempRegister = SIG_INA260 THEN INA260
  ELSE IF tempRegister = SIG_INA3221 THEN INA3221_0
  ELSE UNKNOWN

Classify(tempRegister, die) ==
  IF tempRegister = SIG_INA219 THEN INA219
  ELSE IF tempRegister = SIG_INA226
    THEN IF die = INA226_DIE_ID_VALUE THEN INA226
         ELSE IF die # 0 THEN INA230
         ELSE INA231
  ELSE IF tempRegister = SIG_INA260 THEN INA260
  ELSE IF tempRegister = SIG_INA3221 THEN INA3221_0
  ELSE UNKNOWN

\* _DeviceCount = ((_DeviceCount+1) % maxDevices)
NextCount(cnt, maxDevices) == (cnt + 1) % maxDevices

\* One logical device: set the channel tag, initDevice, advance the count.
Counted(s, address, type, slot) ==
  [s EXCEPT !.cnt = NextCount(s.cnt, s.max),
            !.found = Append(@, [address |-> address, type |-> type, slot |-> slot])]

AddDevice(s, type, e) ==
  Counted(initDevice([s EXCEPT !.ina.type = type], s.cnt, e), s.inaEE.address, type, s.cnt)

\* A recognised candidate: fill inaEE, build ina, register its channels.
AddChannels(s, e) ==
  IF s.inaEE.type = INA3221_0
    THEN AddDevice(AddDevice(AddDevice(s, INA3221_0, e), INA3221_1, e), INA3221_2, e)
    ELSE AddDevice(s, s.ina.type, e)

\* ina = inaEE
Rebuilt(s, u) == [s EXCEPT !.ina = inaDet(s.inaEE, u)]

Register(s, deviceAddress, maxBusAmps, microOhmR, e) ==
  AddChannels(Rebuilt([s EXCEPT !.inaEE.address = deviceAddress % 128,
                                !.inaEE.maxBusAmps = maxBusAmps % 32,
                                !.inaEE.microOhmR = microOhmR % 1048576],
                      e.u),
              e)

\* The reset pattern was not cleared: not an INA, write the saved value back.
NotAnINAMutant(s, originalRegister, deviceAddress) == s

NotAnINA(s, originalRegister, deviceAddress) ==
  writeWord(s, INA_CONFIGURATION_REGISTER, originalRegister, deviceAddress)

\* The candidate is examined if it answers and the table has room.
Examined(s, deviceAddress) == Present(s, deviceAddress) /\ s.cnt < s.max

\* The body of the address loop for one address.
\* The candidate has cleared the reset pattern and has been classified.
Classified(s, deviceAddress, maxBusAmps, microOhmR, e) ==
  IF s.inaEE.type # UNKNOWN
    THEN Register(s, deviceAddress, maxBusAmps, microOhmR, e)
    ELSE s

\* The candidate after the reset pattern has been written to it.
AfterReset(s, originalRegister, deviceAddress, maxBusAmps, microOhmR, e) ==
  IF readWord(s, INA_CONFIGURATION_REGISTER, deviceAddress, e.raw) = INA_RESET_DEVICE
    THEN NotAnINA(s, originalRegister, deviceAddress)
    ELSE Classified([s EXCEPT !.inaEE.type =
                        Classify(readWord(s, INA_CONFIGURATION_REGISTER, deviceAddress, e.raw),
                                 readWord(s, INA_DIE_ID_REGISTER, deviceAddress, e.raw))],
                    deviceAddress, maxBusAmps, microOhmR, e)

Probed(s, deviceAddress) == [s EXCEPT !.probes = Append(@, deviceAddress)]

\* The body of the address loop for one address.
ScanAddress(s, deviceAddress, maxBusAmps, microOhmR, e) ==
  IF ~Examined(s, deviceAddress) THEN Probed(s, deviceAddress)
  ELSE AfterReset(writeWord(Probed(s, deviceAddress), INA_CONFIGURATION_REGISTER, INA_RESET_DEVICE,
                            deviceAddress),
                  readWord(s, INA_CONFIGURATION_REGISTER, deviceAddress, e.raw),
                  deviceAddress, maxBusAmps, microOhmR, e)

RECURSIVE ScanFrom(_, _, _, _, _)
ScanFrom(s, deviceAddress, maxBusAmps, microOhmR, e) ==
  IF deviceAddress >= FirstAddress + NumAddr THEN s
  ELSE ScanFrom(ScanAddress(s, deviceAddress, maxBusAmps, microOhmR, e),
                deviceAddress + 1, maxBusAmps, microOhmR, e)

\* A scan is made only when no device is registered yet.
ScanNeededMutant(cnt) == TRUE

ScanNeeded(cnt) == cnt = 0

\* _currentINA = UINT8_MAX at the end of begin().
Uncached(s) == [s EXCEPT !.cur = UINT8_MAX]

begin(s, maxBusAmps, microOhmR, deviceNumber, e) ==
  Uncached(IF ScanNeeded(s.cnt)
             THEN ScanFrom(s, FirstAddress, maxBusAmps, microOhmR, e)
             ELSE initDevice(readInafromEEPROM(s, deviceNumber, e.u), deviceNumber, e))


(***************************************************************************)
(* The per-device or broadcast operations.  They share the skeleton        *)
(*   for (i = 0; i < _DeviceCount; i++) if (<selected>) { body }           *)
(* and differ in the selection test and in the body.                       *)
(***************************************************************************)
\* deviceNumber==UINT8_MAX || deviceNumber%_DeviceCount==i
SelectedMod(deviceNumber, i, cnt) == deviceNumber = UINT8_MAX \/ deviceNumber % cnt = i
\* deviceNumber==UINT8_MAX || deviceNumber==i
SelectedEq(deviceNumber, i, cnt) == deviceNumber = UINT8_MAX \/ deviceNumber = i

Selected(op, deviceNumber, i, cnt) ==
  IF op \in {"AlertOnConversion", "AlertOnShuntOverVoltage"}
    THEN SelectedEq(deviceNumber, i, cnt)
    ELSE SelectedMod(deviceNumber, i, cnt)

\* configRegister &= ~mask; configRegister |= bits
ClearAndSet(configRegister, mask, bits) ==
  BitOr(BitAnd(configRegister, BitNot16(mask)), U16(bits))

\* Each body below is the selected branch of its method after the call of
\* readInafromEEPROM(i) that opens it: s has device i loaded.
setModeBody(s, i, mode, e) ==
  writeWord(writeInatoEEPROM([s EXCEPT !.ina.operatingMode = BitAnd(7, mode)], i, e.clobber),
            INA_CONFIGURATION_REGISTER,
            BitOr(BitAnd(readWord(s, INA_CONFIGURATION_REGISTER, s.ina.address, e.raw),
                         BitNot16(INA_CONFIG_MODE_MASK)),
                  BitAnd(7, mode)),
            s.ina.address)

AverageIndex219(averages) ==
  IF averages >= 128 THEN 15 ELSE IF averages >= 64 THEN 14 ELSE IF averages >= 32 THEN 13
  ELSE IF averages >= 16 THEN 12 ELSE IF averages >= 8 THEN 11 ELSE IF averages >= 4 THEN 10
  ELSE IF averages >= 2 THEN 9 ELSE 8

AverageIndex226(averages) ==
  IF averages >= 1024 THEN 7 ELSE IF averages >= 512 THEN 6 ELSE IF averages >= 256 THEN 5
  ELSE IF averages >= 128 THEN 4 ELSE IF averages >= 64 THEN 3 ELSE IF averages >= 16 THEN 2
  ELSE IF averages >= 4 THEN 1 ELSE 0

AveragingConfig(type, configRegister, averages) ==
  IF type = INA219
    THEN BitOr(ClearAndSet(configRegister, INA219_CONFIG_AVG_MASK, AverageIndex219(averages) * Pow2(3)),
               AverageIndex219(averages) * Pow2(7))
  ELSE IF type \in {INA226, INA230, INA231, INA3221_0, INA3221_1, INA3221_2, INA260}
    THEN ClearAndSet(configRegister, INA226_CONFIG_AVG_MASK, AverageIndex226(averages) * Pow2(9))
  ELSE configRegister

setAveragingBody(s, i, averages, e) ==
  writeWord(s, INA_CONFIGURATION_REGISTER,
            AveragingConfig(s.ina.type, readWord(s, INA_CONFIGURATION_REGISTER, s.ina.address, e.raw),
                            averages),
            s.ina.address)

ConvRate219(convTime) ==
  IF convTime >= 68100 THEN 15 ELSE IF convTime >= 34050 THEN 14 ELSE IF convTime >= 17020 THEN 13
  ELSE IF convTime >= 8510 THEN 12 ELSE IF convTime >= 4260 THEN 11 ELSE IF convTime >= 2130 THEN 10
  ELSE IF convTime >= 1060 THEN 9 ELSE IF convTime >= 532 THEN 8 ELSE IF convTime >= 276 THEN 2
  ELSE IF convTime >= 148 THEN 1 ELSE 0

ConvRate226(convTime) ==
  IF convTime >= 82440 THEN 7 ELSE IF convTime >= 41560 THEN 6 ELSE IF convTime >= 21160 THEN 5
  ELSE IF convTime >= 11000 THEN 4 ELSE IF convTime >= 588 THEN 3 ELSE IF convTime >= 332 THEN 2
  ELSE IF convTime >= 204 THEN 1 ELSE 0

BusConversionConfig(type, configRegister, convTime) ==
  IF type = INA219
    THEN ClearAndSet(configRegister, INA219_CONFIG_BADC_MASK, ConvRate219(convTime) * Pow2(7))
  ELSE IF type \in {INA226, INA3221_0, INA3221_1, INA3221_2}
    THEN ClearAndSet(configRegister, INA226_CONFIG_BADC_MASK, ConvRate226(convTime) * Pow2(6))
  ELSE IF type \in {INA230, INA231, INA260}
    THEN ClearAndSet(configRegister, INA260_CONFIG_BADC_MASK, ConvRate226(convTime) * Pow2(7))
  ELSE configRegister

setBusConversionBody(s, i, convTime, e) ==
  writeWord(s, INA_CONFIGURATION_REGISTER,
            BusConversionConfig(s.ina.type, readWord(s, INA_CONFIGURATION_REGISTER, s.ina.address, e.raw),
                                convTime),
            s.ina.address)

ShuntConversionConfig(type, configRegister, convTime) ==
  IF type = INA219
    THEN ClearAndSet(configRegister, INA219_CONFIG_SADC_MASK, ConvRate219(convTime) * Pow2(3))
  ELSE IF type \in {INA226, INA3221_0, INA3221_1, INA3221_2}
    THEN ClearAndSet(configRegister, INA226_CONFIG_SADC_MASK, ConvRate226(convTime) * Pow2(3))
  ELSE IF type \in {INA230, INA231, INA260}
    THEN ClearAndSet(configRegister, INA260_CONFIG_SADC_MASK, ConvRate226(convTime) * Pow2(3))
  ELSE configRegister

setShuntConversionBody(s, i, convTime, e) ==
  writeWord(s, INA_CONFIGURATION_REGISTER,
            ShuntConversionConfig(s.ina.type, readWord(s, INA_CONFIGURATION_REGISTER, s.ina.address, e.raw),
                                  convTime),
            s.ina.address)

resetBody(s, i, e) ==
  initDevice(writeWord(s, INA_CONFIGURATION_REGISTER, INA_RESET_DEVICE, s.ina.address), i, e)

(***************************************************************************)
(* The six alert configurations.                                           *)
(***************************************************************************)
AlertOps == {"AlertOnConversion", "AlertOnShuntOverVoltage", "AlertOnShuntUnderVoltage",
             "AlertOnBusOverVoltage", "AlertOnBusUnderVoltage", "AlertOnPowerOverLimit"}

\* The case labels of the switch in each alert method.
AlertTypes(op) ==
  IF op \in {"AlertOnShuntOverVoltage", "AlertOnShuntUnderVoltage"}
    THEN {INA226, INA230, INA231}
    ELSE {INA226, INA230, INA231, INA260}

AlertBit(op) ==
  IF op = "AlertOnConversion" THEN INA_ALERT_CONVERSION_RDY_BIT
  ELSE IF op = "AlertOnShuntOverVoltage" THEN INA_ALERT_SHUNT_OVER_VOLT_BIT
  ELSE IF op = "AlertOnShuntUnderVoltage" THEN INA_ALERT_SHUNT_UNDER_VOLT_BIT
  ELSE IF op = "AlertOnBusOverVoltage" THEN INA_ALERT_BUS_OVER_VOLT_BIT
  ELSE IF op = "AlertOnBusUnderVoltage" THEN INA_ALERT_BUS_UNDER_VOLT_BIT
  ELSE INA_ALERT_POWER_OVER_WATT_BIT

\* bool returnCode = false / true at the top of the method.
AlertInitialReturn(op) == op \notin {"AlertOnConversion", "AlertOnShuntOverVoltage"}

\* Only two of the methods assign returnCode = true in the supported case.
AlertSetsTrue(op) == op \in {"AlertOnConversion", "AlertOnShuntOverVoltage"}

\* C integer division truncates towards zero.
TruncDiv(a, b) == IF a >= 0 THEN a \div b ELSE 0 - ((0 - a) \div b)

\* uint16_t threshold = value * scale / LSB
AlertThreshold(op, ina, value, dz) ==
  IF op \in {"AlertOnShuntOverVoltage", "AlertOnShuntUnderVoltage"}
    THEN IF ina.shuntVoltage_LSB = 0 THEN dz ELSE TruncDiv(value * 1000, ina.shuntVoltage_LSB) % 65536
  ELSE IF op \in {"AlertOnBusOverVoltage", "AlertOnBusUnderVoltage"}
    THEN IF ina.busVoltage_LSB = 0 THEN dz ELSE TruncDiv(value * 100, ina.busVoltage_LSB) % 65536
  ELSE IF ina.power_LSB = 0 THEN dz ELSE TruncDiv(value * 1000000, ina.power_LSB) % 65536

\* alertRegister with the alert bits masked off and the wanted one set.
AlertRegister(alertRegister, op, alertState) ==
  IF alertState THEN bitSet(BitAnd(alertRegister, INA_ALERT_MASK), AlertBit(op))
                ELSE BitAnd(alertRegister, INA_ALERT_MASK)

AlertSupported(s, op, alertState, value, e) ==
  writeWord(IF alertState /\ op # "AlertOnConversion"
              THEN writeWord(s, INA_ALERT_LIMIT_REGISTER, AlertThreshold(op, s.ina, value, e.dz),
                             s.ina.address)
              ELSE s,
            INA_MASK_ENABLE_REGISTER,
            AlertRegister(readWord(s, INA_MASK_ENABLE_REGISTER, s.ina.address, e.raw), op, alertState),
            s.ina.address)

AlertBody(s, i, op, alertState, value, e) ==
  IF s.ina.type \in AlertTypes(op)
    THEN [AlertSupported(s, op, alertState, value, e)
            EXCEPT !.rc = IF AlertSetsTrue(op) THEN TRUE ELSE @]
    ELSE [s EXCEPT !.rc = FALSE]

(***************************************************************************)
(* The loop over the registered devices.  a carries the arguments of the   *)
(* call: a.op, a.deviceNumber and the value arguments of the method.       *)
(***************************************************************************)
Body(s, i, a, e) ==
  IF a.op = "setMode" THEN setModeBody(s, i, a.value, e)
  ELSE IF a.op = "setAveraging" THEN setAveragingBody(s, i, a.value, e)
  ELSE IF a.op = "setBusConversion" THEN setBusConversionBody(s, i, a.value, e)
  ELSE IF a.op = "setShuntConversion" THEN setShuntConversionBody(s, i, a.value, e)
  ELSE IF a.op = "reset" THEN resetBody(s, i, e)
  ELSE AlertBody(s, i, a.op, a.alertState, a.value, e)

RECURSIVE ForEachDevice(_, _, _, _)
ForEachDevice(s, i, a, e) ==
  IF i >= s.cnt THEN s
  ELSE IF Selected(a.op, a.deviceNumber, i, s.cnt)
    THEN ForEachDevice(Body(readInafromEEPROM([s EXCEPT !.targets = Append(@, i)], i, e.u), i, a, e),
                       i + 1, a, e)
    ELSE ForEachDevice(s, i + 1, a, e)


(***************************************************************************)
(* waitForConversion: the device loop with its polling loop.  The call     *)
(* stays at device wi until a poll returns non-zero conversion bits.       *)
(***************************************************************************)
\* What a read of a status register returns; ready is the conversion-ready
\* flag the chip presents to this read.
StatusRead(s, reg, a, ready) ==
  IF ~Present(s, a) THEN 65535
  ELSE IF reg = INA_MASK_ENABLE_REGISTER
    THEN BitOr(bitClear(s.hw[a].mask, 3), IF ready THEN 8 ELSE 0)
  ELSE IF reg = INA3221_MASK_REGISTER THEN (IF ready THEN 1 ELSE 0)
  ELSE (IF ready THEN 2 ELSE 0)

\* The register the switch reads for a variant.
StatusRegister(type) ==
  IF type = INA219 THEN INA_BUS_VOLTAGE_REGISTER
  ELSE IF type \in {INA226, INA230, INA231, INA260} THEN INA_MASK_ENABLE_REGISTER
  ELSE INA3221_MASK_REGISTER

\* The status read of one pass: <<address, register, word>>, none in the
\* default branch.
PolledWord(s, ready) ==
  IF s.ina.type \in {INA219, INA226, INA230, INA231, INA260, INA3221_0, INA3221_1, INA3221_2}
    THEN <<s.ina.address, StatusRegister(s.ina.type),
           StatusRead(s, StatusRegister(s.ina.type), s.ina.address, ready)>>
    ELSE <<>>

\* The switch with the INA226 family masked for bit 2 instead of bit 3.
ConversionBitsMutant(s, ready) ==
  IF s.ina.type = INA219
    THEN BitOr(StatusRead(s, INA_BUS_VOLTAGE_REGISTER, s.ina.address, ready), 2)
  ELSE IF s.ina.type \in {INA226, INA230, INA231, INA260}
    THEN BitAnd(StatusRead(s, INA_MASK_ENABLE_REGISTER, s.ina.address, ready), 4)
  ELSE IF s.ina.type \in {INA3221_0, INA3221_1, INA3221_2}
    THEN BitAnd(StatusRead(s, INA3221_MASK_REGISTER, s.ina.address, ready), 1)
  ELSE 1

\* cvBits after one pass through the switch.
ConversionBits(s, ready) ==
  IF s.ina.type = INA219
    THEN BitOr(StatusRead(s, INA_BUS_VOLTAGE_REGISTER, s.ina.address, ready), 2)
  ELSE IF s.ina.type \in {INA226, INA230, INA231, INA260}
    THEN BitAnd(StatusRead(s, INA_MASK_ENABLE_REGISTER, s.ina.address, ready), 8)
  ELSE IF s.ina.type \in {INA3221_0, INA3221_1, INA3221_2}
    THEN BitAnd(StatusRead(s, INA3221_MASK_REGISTER, s.ina.address, ready), 1)
  ELSE 1

\* Advance the device loop to the next selected device, loading it; i is
\* NoSlot when the loop has ended.
RECURSIVE WaitNext(_, _, _, _)
WaitNext(s, i, deviceNumber, u) ==
  IF i >= s.cnt THEN [st |-> s, i |-> NoSlot]
  ELSE IF SelectedMod(deviceNumber, i, s.cnt)
    THEN [st |-> readInafromEEPROM([s EXCEPT !.targets = Append(@, i)], i, u), i |-> i]
    ELSE WaitNext(s, i + 1, deviceNumber, u)

(***************************************************************************)
(* State.                                                                  *)
(***************************************************************************)
VARIABLES
  bus,         \* the participant at each bus address (never changes)
  build,       \* what the build does where the language leaves it open
  maxDevices,  \* EEPROM.length() / sizeof(ina)
  hw,          \* the registers of each participant
  ee,          \* the EEPROM device table, one inaDet per slot
  ina,         \* the member ina: the cached device detail
  inaEE,       \* the member inaEE
  currentINA,  \* _currentINA
  DeviceCount, \* _DeviceCount
  wlog,        \* register writes of the current/last call: <<address, register, value>>
  eelog,       \* EEPROM accesses of the current/last call: <<"get"|"put", index>>
  probes,      \* addresses probed by the current/last call
  targets,     \* device indices whose loop body ran in the current/last call
  found,       \* devices registered by the last scan: address, type, slot
  pre,         \* the registers as they were when the last scan started
  rc,          \* returnCode of the last alert call
  ret,         \* numeric return value of the last call
  call,        \* the current/last call and its arguments
  ops,         \* number of calls made so far
  pc,          \* "idle", or "wait" inside waitForConversion's polling loop
  wi,          \* device index waitForConversion is polling
  polled       \* the status read of the last poll: <<address, register, word>>

vars == <<bus, build, maxDevices, hw, ee, ina, inaEE, currentINA, DeviceCount, wlog, eelog, probes, targets,
          found, pre, rc, ret, call, ops, pc, wi, polled>>

\* The variables as one machine-state record, and back.
St ==
  [bus |-> bus, max |-> maxDevices, hw |-> hw, ee |-> ee, ina |-> ina, inaEE |-> inaEE, cur |-> currentINA,
   cnt |-> DeviceCount, wlog |-> wlog, eelog |-> eelog, probes |-> probes, targets |-> targets,
   found |-> found, pre |-> pre, rc |-> rc]

\* The state at the entry of a call: the per-call logs are empty.
Entry == [St EXCEPT !.wlog = <<>>, !.eelog = <<>>, !.probes = <<>>, !.targets = <<>>]

Becomes(s) ==
  /\ bus' = s.bus /\ build' = build /\ maxDevices' = s.max /\ hw' = s.hw /\ ee' = s.ee /\ ina' = s.ina /\ inaEE' = s.inaEE
  /\ currentINA' = s.cur /\ DeviceCount' = s.cnt /\ wlog' = s.wlog /\ eelog' = s.eelog
  /\ probes' = s.probes /\ targets' = s.targets /\ found' = s.found /\ pre' = s.pre
  /\ rc' = s.rc

Call(op, deviceNumber, value, alertState, maxBusAmps, microOhmR) ==
  [op |-> op, deviceNumber |-> deviceNumber, value |-> value, alertState |-> alertState,
   maxBusAmps |-> maxBusAmps, microOhmR |-> microOhmR]

(***************************************************************************)
(* Argument values the caller uses.                                        *)
(***************************************************************************)
\* <<maxBusAmps, microOhmR>> passed to begin().
BeginPairs == {<<1, 2000>>, <<4, 100000>>, <<36, 100000>>}
DeviceNumbers == {0, 3, UINT8_MAX}
ModeValues == {3, 13}
AveragesValues == {64}
ConvTimes == {1100}
AlertValues == {10}
\* inaEE is never assigned before the first scan; its mode field is whatever
\* the object's storage held (zero for a static object).
UninitModes == {0, 3}

\* Bus populations of the full specification: the first two addresses hold
\* an INA219, an INA226 or nothing, the others are empty.
MainKinds == {"none", "INA219", "INA226"}
MainBus ==
  { b \in [BusAddrs -> Profiles] :
      \A a \in BusAddrs : IF a < FirstAddress + 2 THEN b[a].kind \in MainKinds
                                                  ELSE b[a].kind = "none" }

InitWith(buses, builds, capacities, modes) ==
  /\ bus \in buses
  /\ build \in builds
  /\ maxDevices \in capacities
  /\ hw = [a \in BusAddrs |-> HwRegs(bus[a].cfg0, 0, 0, 0)]
  /\ ee = [k \in Slots(maxDevices) |-> ErasedRecord]
  /\ inaEE \in { [type |-> 0, operatingMode |-> m, address |-> 0, maxBusAmps |-> 0, microOhmR |-> 0] :
                 m \in modes }
  /\ ina = Det([type |-> 0, operatingMode |-> 0, address |-> 0, maxBusAmps |-> 0, microOhmR |-> 0],
               Derived(0, 0, 0, 0, 0, 0, 0))
  /\ currentINA = UINT8_MAX
  /\ DeviceCount = 0
  /\ wlog = <<>> /\ eelog = <<>> /\ probes = <<>> /\ targets = <<>> /\ found = <<>>
  /\ pre = hw
  /\ rc = FALSE /\ ret = 0
  /\ call = Call("none", 0, 0, FALSE, 0, 0)
  /\ ops = 0 /\ pc = "idle" /\ wi = NoSlot /\ polled = <<>>

\* With only INA219 and INA226 on the bus every field of ina is assigned, so
\* the content of an unassigned temporary does not matter: one is taken.
MainBuilds == { b \in Builds : b.u = Derived(0, 0, 0, 0, 0, 0, 0) }

Init == InitWith(MainBus, MainBuilds, {MaxCapacity}, UninitModes)

\* Any population of the modelled addresses, any capacity of at least one record.
InitScan == InitWith([BusAddrs -> Profiles], Builds, 1 .. MaxCapacity, {0})

\* A call can be made: the previous one has returned.  The library is used
\* as documented, begin() first.
CanCall == pc = "idle" /\ ops <= MaxOps
Called(c) == call' = c /\ ops' = ops + 1 /\ pc' = "idle" /\ wi' = NoSlot /\ polled' = <<>>

\* Slots an out-of-range EEPROM.put may hit.
Clobbers(deviceNumber) ==
  IF deviceNumber \in Slots(maxDevices) THEN {NoSlot} ELSE Slots(maxDevices) \cup {NoSlot}

(***************************************************************************)
(* Actions: one per public method.                                         *)
(***************************************************************************)
\* begin() returns _DeviceCount.
BeginReturns(s, c) == Becomes(s) /\ ret' = s.cnt /\ Called(c)

\* A value-returning method returns: g is its new state and value.
ValueReturns(g, c) == Becomes(g.st) /\ ret' = g.val /\ Called(c)

\* waitForConversion stands at device r.i, or has returned.
WaitsAt(r) == Becomes(r.st) /\ wi' = r.i /\ pc' = IF r.i = NoSlot THEN "idle" ELSE "wait"

\* begin() entered with no device registered: the scan.
BeginScan ==
  /\ CanCall /\ ScanNeeded(DeviceCount)
  /\ \E ar \in BeginPairs, raw \in RawCall :
       BeginReturns(begin([Entry EXCEPT !.found = <<>>, !.pre = hw], ar[1], ar[2], UINT8_MAX,
                          Env(build, raw, NoSlot)),
                    Call("begin", UINT8_MAX, 0, FALSE, ar[1], ar[2]))

\* begin() entered with devices registered: re-initialise one device.
BeginAgain ==
  /\ CanCall /\ ~ScanNeeded(DeviceCount)
  /\ \E ar \in BeginPairs, d \in DeviceNumbers, raw \in RawCall :
       \E clobber \in Clobbers(d) :
         BeginReturns(begin(Entry, ar[1], ar[2], d, Env(build, raw, clobber)),
                      Call("begin", d, 0, FALSE, ar[1], ar[2]))

\* Environment of a call that reads no measurement register.
Quiet == Env(build, [a \in BusAddrs |-> 0], NoSlot)

LoopCall(a, e) ==
  /\ Becomes(ForEachDevice([Entry EXCEPT !.rc = IF a.op \in AlertOps THEN AlertInitialReturn(a.op) ELSE @],
                           0, a, e))
  /\ ret' = 0 /\ Called(a)

SetMode ==
  /\ CanCall /\ ops > 0
  /\ \E m \in ModeValues, d \in DeviceNumbers :
       LoopCall(Call("setMode", d, m, FALSE, 0, 0), Quiet)

SetAveraging ==
  /\ CanCall /\ ops > 0
  /\ \E v \in AveragesValues, d \in DeviceNumbers :
       LoopCall(Call("setAveraging", d, v, FALSE, 0, 0), Quiet)

SetBusConversion ==
  /\ CanCall /\ ops > 0
  /\ \E v \in ConvTimes, d \in DeviceNumbers :
       LoopCall(Call("setBusConversion", d, v, FALSE, 0, 0), Quiet)

SetShuntConversion ==
  /\ CanCall /\ ops > 0
  /\ \E v \in ConvTimes, d \in DeviceNumbers :
       LoopCall(Call("setShuntConversion", d, v, FALSE, 0, 0), Quiet)

Reset ==
  /\ CanCall /\ ops > 0
  /\ \E d \in DeviceNumbers, raw \in RawCall :
       LoopCall(Call("reset", d, 0, FALSE, 0, 0), Env(build, raw, NoSlot))

Alert ==
  /\ CanCall /\ ops > 0
  /\ \E op \in AlertOps, b \in BOOLEAN, v \in AlertValues, d \in DeviceNumbers :
       LoopCall(Call(op, d, v, b, 0, 0), Quiet)

GetBusMilliVolts ==
  /\ CanCall /\ ops > 0
  /\ \E d \in DeviceNumbers, raw \in RawCall :
       ValueReturns(getBusMilliVolts(Entry, d, Env(build, raw, NoSlot)),
                    Call("getBusMilliVolts", d, 0, FALSE, 0, 0))

\* waitForConversion is entered; it returns at once if no device is selected.
WaitForConversion ==
  /\ CanCall /\ ops > 0
  /\ \E d \in DeviceNumbers :
       /\ WaitsAt(WaitNext(Entry, 0, d, build.u))
       /\ ret' = 0
       /\ call' = Call("waitForConversion", d, 0, FALSE, 0, 0)
       /\ ops' = ops + 1
       /\ polled' = <<>>

\* One pass of the polling loop for device wi, the chip presenting its
\* conversion-ready flag as ready: the while loop goes round again on zero
\* conversion bits and the device loop moves on otherwise.
Poll(ready) ==
  /\ pc = "wait"
  /\ polled' = PolledWord(St, ready)
  /\ IF ConversionBits(St, ready) = 0
       THEN UNCHANGED <<bus, build, maxDevices, hw, ee, ina, inaEE, currentINA, DeviceCount, wlog, eelog,
                        probes, targets, found, pre, rc, wi, pc>>
       ELSE \E r \in {WaitNext(St, wi + 1, call.deviceNumber, build.u)} : WaitsAt(r)
  /\ UNCHANGED <<ret, call, ops>>

PollConversion ==
  /\ pc = "wait"
  /\ \E ready \in BOOLEAN : Poll(ready)

Next ==
  \/ BeginScan
  \/ BeginAgain
  \/ SetMode
  \/ SetAveraging
  \/ SetBusConversion
  \/ SetShuntConversion
  \/ Reset
  \/ Alert
  \/ GetBusMilliVolts
  \/ WaitForConversion
  \/ PollConversion

Spec == Init /\ [][Next]_vars

(***************************************************************************)
(* The measurement accessors with setMode, after a scan of a bus that may  *)
(* also hold an INA260 or an INA3221.                                      *)
(***************************************************************************)
\* Calls after begin() in this specification.
MaxReads == 2
ReadDevices == {0, 1}
ReadModes == {1, 2, 13}
ReadKinds == {"INA219", "INA226", "INA260", "INA3221"}
ReadBus ==
  { b \in [BusAddrs -> Profiles] :
      \A a \in BusAddrs : IF a = FirstAddress THEN b[a].kind \in ReadKinds
                           ELSE IF a = FirstAddress + 1 THEN b[a].kind \in {"none", "INA226"}
                           ELSE b[a].kind = "none" }

InitRead == InitWith(ReadBus, Builds, {MaxCapacity + 1}, UninitModes)

CanRead == pc = "idle" /\ ops > 0 /\ ops <= MaxReads

\* The raw reading is kept in the value field of the call.
ReadBusMilliVolts ==
  /\ CanRead
  /\ \E d \in ReadDevices, v \in RawValues :
       ValueReturns(getBusMilliVolts(Entry, d, Env(build, [a \in BusAddrs |-> v], NoSlot)),
                    Call("getBusMilliVolts", d, v, FALSE, 0, 0))

ReadShuntMicroVolts ==
  /\ CanRead
  /\ \E d \in ReadDevices, v \in RawValues :
       ValueReturns(getShuntMicroVolts(Entry, d, Env(build, [a \in BusAddrs |-> v], NoSlot)),
                    Call("getShuntMicroVolts", d, v, FALSE, 0, 0))

ReadSetMode ==
  /\ CanRead
  /\ \E m \in ReadModes, d \in ReadDevices \cup {UINT8_MAX} :
       LoopCall(Call("setMode", d, m, FALSE, 0, 0), Quiet)

NextRead ==
  \/ BeginScan
  \/ ReadSetMode
  \/ ReadBusMilliVolts
  \/ ReadShuntMicroVolts

SpecRead == InitRead /\ [][NextRead]_vars

(***************************************************************************)
(* waitForConversion after a scan of the same buses.  The polling loop     *)
(* reads the status register without pause, and a chip that converts       *)
(* raises its conversion-ready flag and holds it until it is read: a poll  *)
(* that finds the flag raised cannot be put off for ever.                  *)
(***************************************************************************)
\* The buses of the accessors, and those with no chip at the first address.
WaitBus ==
  { b \in [BusAddrs -> Profiles] :
      \A a \in BusAddrs : IF a = FirstAddress THEN b[a].kind \in ReadKinds \cup {"none"}
                           ELSE IF a = FirstAddress + 1 THEN b[a].kind \in {"none", "INA226"}
                           ELSE b[a].kind = "none" }

InitWait == InitWith(WaitBus, Builds, {MaxCapacity + 1}, UninitModes)

NextWait ==
  \/ BeginScan
  \/ WaitForConversion
  \/ PollConversion

SpecWait == InitWait /\ [][NextWait]_vars /\ WF_vars(Poll(TRUE))

(***************************************************************************)
(* The alert configurations after a scan of the same buses.                *)
(***************************************************************************)
NextAlert ==
  \/ BeginScan
  \/ Alert

SpecAlert == InitRead /\ [][NextAlert]_vars

(***************************************************************************)
(* Configuration calls that follow one another after a scan: begin() on    *)
(* its re-entry path, setMode, setAveraging and reset.                     *)
(***************************************************************************)
\* Calls after the scan in this specification.
MaxConfigs == 2
ConfigBus ==
  { b \in [BusAddrs -> Profiles] :
      \A a \in BusAddrs : IF a = FirstAddress THEN b[a].kind \in {"INA219", "INA226"}
                           ELSE IF a = FirstAddress + 1 THEN b[a].kind \in {"none", "INA226"}
                           ELSE b[a].kind = "none" }

InitConfig == InitWith(ConfigBus, MainBuilds, {MaxCapacity}, UninitModes)

CanConfig == pc = "idle" /\ ops > 0 /\ ops <= MaxConfigs

ConfigBeginAgain ==
  /\ CanConfig /\ ~ScanNeeded(DeviceCount)
  /\ \E ar \in BeginPairs, d \in ReadDevices \cup {UINT8_MAX}, raw \in RawCall :
       \E clobber \in Clobbers(d) :
         BeginReturns(begin(Entry, ar[1], ar[2], d, Env(build, raw, clobber)),
                      Call("begin", d, 0, FALSE, ar[1], ar[2]))

ConfigSetMode ==
  /\ CanConfig
  /\ \E m \in ModeValues, d \in ReadDevices \cup {UINT8_MAX} :
       LoopCall(Call("setMode", d, m, FALSE, 0, 0), Quiet)

ConfigSetAveraging ==
  /\ CanConfig
  /\ \E v \in AveragesValues, d \in ReadDevices \cup {UINT8_MAX} :
       LoopCall(Call("setAveraging", d, v, FALSE, 0, 0), Quiet)

ConfigReset ==
  /\ CanConfig
  /\ \E d \in ReadDevices \cup {UINT8_MAX}, raw \in RawCall :
       LoopCall(Call("reset", d, 0, FALSE, 0, 0), Env(build, raw, NoSlot))

NextConfig ==
  \/ BeginScan
  \/ ConfigBeginAgain
  \/ ConfigSetMode
  \/ ConfigSetAveraging
  \/ ConfigReset

SpecConfig == InitConfig /\ [][NextConfig]_vars

(***************************************************************************)
(* The conversion-time settings after a scan of a bus with one chip.       *)
(***************************************************************************)
\* Calls after the scan in this specification.
MaxConvs == 2
\* Conversion times that select the rates 0, 3 and 6 (9 and 15 on INA219).
ConvTimeValues == {100, 1100, 68100}
ConvBus ==
  { b \in [BusAddrs -> Profiles] :
      \A a \in BusAddrs : IF a = FirstAddress THEN b[a].kind \in ReadKinds
                                               ELSE b[a].kind = "none" }

InitConv == InitWith(ConvBus, Builds, {MaxCapacity + 1}, {0})

CanConv == pc = "idle" /\ ops > 0 /\ ops <= MaxConvs

ConvSetBusConversion ==
  /\ CanConv
  /\ \E v \in ConvTimeValues, d \in {0, UINT8_MAX} :
       LoopCall(Call("setBusConversion", d, v, FALSE, 0, 0), Quiet)

ConvSetShuntConversion ==
  /\ CanConv
  /\ \E v \in ConvTimeValues, d \in {0, UINT8_MAX} :
       LoopCall(Call("setShuntConversion", d, v, FALSE, 0, 0), Quiet)

NextConv ==
  \/ BeginScan
  \/ ConvSetBusConversion
  \/ ConvSetShuntConversion

SpecConv == InitConv /\ [][NextConv]_vars

\* The scan alone, over every bus population and capacity.
NextScan == BeginScan

SpecScan == InitScan /\ [][NextScan]_vars


(***************************************************************************)
(* Vocabulary of the properties.                                           *)
(***************************************************************************)
\* The last call was a begin() that scanned the bus.
Scanned == call.op = "begin" /\ probes # <<>>
\* The last call was a begin() on the re-entry path.
Reentered == call.op = "begin" /\ probes = <<>>

\* The variant each post-reset signature stands for, as documented.
ExpectedVariant(cfg, die) ==
  CASE cfg = 14751 -> INA219
    [] cfg = 16679 /\ die = 8800 -> INA226
    [] cfg = 16679 /\ die # 8800 /\ die # 0 -> INA230
    [] cfg = 16679 /\ die = 0 -> INA231
    [] cfg = 24871 -> INA260
    [] cfg = 28967 -> INA3221_0
    [] OTHER -> UNKNOWN

\* The types registered at address a by the last scan, in order.
TypesAt(a) ==
  LET at == SelectSeq(found, LAMBDA f : f.address = a)
  IN [k \in 1 .. Len(at) |-> at[k].type]

\* The records a variant occupies in the table.
ChannelsOf(type) ==
  IF type = UNKNOWN THEN <<>>
  ELSE IF type = INA3221_0 THEN <<INA3221_0, INA3221_1, INA3221_2>>
  ELSE <<type>>

AutoClears(a) == bus[a].present /\ ~bus[a].sticky
ConfigWrites(a) == SelectSeq(wlog, LAMBDA w : w[1] = a /\ w[2] = INA_CONFIGURATION_REGISTER)
Puts == SelectSeq(eelog, LAMBDA x : x[1] = "put")
PutsAt(k) == SelectSeq(eelog, LAMBDA x : x = <<"put", k>>)

\* The logical devices on the bus in ascending address order: <<address, type>>.
RECURSIVE LogicalFrom(_)
LogicalFrom(a) ==
  IF a >= FirstAddress + NumAddr THEN <<>>
  ELSE LET here == IF AutoClears(a) THEN ChannelsOf(ExpectedVariant(bus[a].dflt, bus[a].die))
                                    ELSE <<>>
       IN [k \in 1 .. Len(here) |-> <<a, here[k]>>] \o LogicalFrom(a + 1)

Logical == LogicalFrom(FirstAddress)
SingleChannel(a) == AutoClears(a) /\ ExpectedVariant(bus[a].dflt, bus[a].die) \in {INA219, INA226, INA230, INA231, INA260}

(***************************************************************************)
(* C1 (as claimed): whenever the cache holds a registered index i while    *)
(* other devices are registered too, the device detail in use has the      *)
(* variant, bus address, operating mode, maxBusAmps and microOhmR of the   *)
(* record last stored at index i.                                          *)
(***************************************************************************)
C1_DetailFromOwnRecord ==
  (DeviceCount >= 2 /\ currentINA \in 0 .. (DeviceCount - 1))
    => RecordOf(ina) = RecordOf(ee[currentINA])

(***************************************************************************)
(* C2: after a scan, every responding address that auto-clears is          *)
(* registered as exactly the variant its post-reset signature stands for   *)
(* (three channel records for the INA3221), an unrecognised signature      *)
(* registers nothing, and one record is written and the count advanced     *)
(* once per registered record only.                                        *)
(***************************************************************************)
C2_Classification ==
  Scanned =>
    /\ \A a \in BusAddrs :
         AutoClears(a) => TypesAt(a) = ChannelsOf(ExpectedVariant(bus[a].dflt, bus[a].die))
    /\ \A a \in BusAddrs : ~AutoClears(a) => TypesAt(a) = <<>>
    /\ Len(Puts) = Len(found)
    /\ DeviceCount = Len(found) % maxDevices

\* A scan met an unrecognised signature and a chip told apart by its die ID.
C2_Witness ==
  /\ Scanned
  /\ \E a \in BusAddrs : AutoClears(a) /\ ExpectedVariant(bus[a].dflt, bus[a].die) = UNKNOWN
                          /\ Len(ConfigWrites(a)) > 0
  /\ \E k \in 1 .. Len(found) : found[k].type = INA230

(***************************************************************************)
(* C3 (as claimed): with room for exactly N records and N+1 single-channel *)
(* devices on the bus, begin returns N and the configuration register of   *)
(* the last candidate is never written during the scan.                    *)
(***************************************************************************)
C3_CapacityBoundary ==
  (/\ Scanned
   /\ \A a \in BusAddrs : SingleChannel(a)
   /\ NumAddr = maxDevices + 1)
    => /\ ret = maxDevices
       /\ ConfigWrites(FirstAddress + NumAddr - 1) = <<>>

(***************************************************************************)
(* C4 (as claimed): a scan that finds k logical devices, 1 <= k <= N,      *)
(* returns k, and slots 0..k-1 hold those devices in ascending address     *)
(* order, each slot written exactly once.                                  *)
(***************************************************************************)
C4_CountAndOrder ==
  (Scanned /\ Len(Logical) >= 1 /\ Len(Logical) <= maxDevices)
    => /\ ret = Len(Logical)
       /\ \A k \in 1 .. Len(Logical) :
            /\ ee[k - 1].address = Logical[k][1]
            /\ ee[k - 1].type = Logical[k][2]
            /\ Len(PutsAt(k - 1)) = 1

(***************************************************************************)
(* C5: after a scan, a responding address that kept the reset pattern is   *)
(* not registered and its configuration register was written back, so it   *)
(* holds the value it had before the scan.                                 *)
(***************************************************************************)
C5_StickyRestored ==
  Scanned =>
    \A a \in BusAddrs :
      (bus[a].present /\ bus[a].sticky)
        => /\ TypesAt(a) = <<>>
           /\ ConfigWrites(a) = << <<a, INA_CONFIGURATION_REGISTER, INA_RESET_DEVICE>>,
                                   <<a, INA_CONFIGURATION_REGISTER, pre[a].cfg>> >>
           /\ hw[a].cfg = pre[a].cfg

\* A scan wrote the reset pattern to a participant that kept it.
C5_Witness ==
  /\ Scanned
  /\ \E a \in BusAddrs :
       /\ bus[a].present /\ bus[a].sticky
       /\ \E k \in 1 .. Len(wlog) : wlog[k] = <<a, INA_CONFIGURATION_REGISTER, INA_RESET_DEVICE>>
       /\ pre[a].cfg # INA_RESET_DEVICE

(***************************************************************************)
(* C6 (as claimed): after a scan, every responding participant that was    *)
(* not registered has the configuration register it had before the scan.   *)
(***************************************************************************)
C6_UnregisteredUndisturbed ==
  Scanned =>
    \A a \in BusAddrs :
      (bus[a].present /\ TypesAt(a) = <<>>) => hw[a].cfg = pre[a].cfg

(***************************************************************************)
(* C7: while the device count is non-zero no call changes it, and a        *)
(* begin() entered with a non-zero count probes no address and writes no   *)
(* reset pattern; addresses are probed only by a begin() entered with      *)
(* device count zero.                                                      *)
(***************************************************************************)
NoResetWrite(log) ==
  \A k \in 1 .. Len(log) : ~(log[k][2] = INA_CONFIGURATION_REGISTER /\ log[k][3] = INA_RESET_DEVICE)

C7_NoRescan ==
  [][ /\ (DeviceCount # 0 /\ call'.op = "begin" /\ ops' = ops + 1)
          => (probes' = <<>> /\ NoResetWrite(wlog') /\ DeviceCount' = DeviceCount)
      /\ (DeviceCount # 0) => (DeviceCount' = DeviceCount)
      /\ (ops' = ops + 1 /\ probes' # <<>>) => (DeviceCount = 0 /\ call'.op = "begin") ]_vars

\* A second begin() has returned with devices registered.
C7_Witness ==
  /\ call.op = "begin" /\ ops = 2 /\ DeviceCount # 0 /\ probes = <<>>
  /\ Len(eelog) > 0

(***************************************************************************)
(* C8 (as claimed): after begin(A', R', i) on the re-entry path with a     *)
(* registered index i, the record stored at i has maxBusAmps = A' and      *)
(* microOhmR = R', and the calibration register of the device holds the    *)
(* value computed from A' and R'.                                          *)
(***************************************************************************)
CalibrationFor(type, amps, ohms) ==
  LET divisor == MulDiv(MulDiv(1000000000, amps, 32767), ohms, 100000)
  IN (IF type = INA219 THEN 409600000 ELSE 51200000) \div divisor

C8_Recalibrated ==
  (Reentered /\ call.deviceNumber \in 0 .. (DeviceCount - 1))
    => LET r == ee[call.deviceNumber]
       IN /\ r.maxBusAmps = call.maxBusAmps
          /\ r.microOhmR = call.microOhmR
          /\ (r.type \in {INA219, INA226, INA230, INA231} /\ Present(St, r.address))
               => hw[r.address].cal = CalibrationFor(r.type, call.maxBusAmps, call.microOhmR) % 65536

(***************************************************************************)
(* C9 (as claimed): a store of the record at index i is never followed     *)
(* directly by a storage read of index i, and when the last storage access *)
(* of a call is to a slot i, the detail in memory equals the stored record *)
(* of i field for field.                                                   *)
(***************************************************************************)
C9_StoreThenLoad ==
  /\ \A k \in 1 .. (Len(eelog) - 1) :
       eelog[k][1] = "put" => eelog[k + 1] # <<"get", eelog[k][2]>>
  /\ (Len(eelog) > 0 /\ eelog[Len(eelog)][2] \in DOMAIN ee /\ call.op \in {"begin", "setMode", "reset"})
       => RecordOf(ina) = RecordOf(ee[eelog[Len(eelog)][2]])

(***************************************************************************)
(* C10 (as claimed): a completed per-device or broadcast call made with    *)
(* n > 0 registered devices ran its body for exactly device d mod n when   *)
(* d # 255, and for all of 0..n-1 when d = 255.                            *)
(***************************************************************************)
LoopOps == {"setMode", "setAveraging", "setBusConversion", "setShuntConversion", "reset",
            "waitForConversion"} \cup AlertOps

C10_TargetSelection ==
  (call.op \in LoopOps /\ pc = "idle" /\ DeviceCount > 0)
    => targets = IF call.deviceNumber = UINT8_MAX
                   THEN [k \in 1 .. DeviceCount |-> k - 1]
                   ELSE << call.deviceNumber % DeviceCount >>

(***************************************************************************)
(* C11 (as claimed): every calibration-register write of a scan goes to a  *)
(* device registered as INA219 or INA226/230/231 and carries               *)
(* K*100000 / (currentLSB * R / 100000) for the R and the maxBusAmps the   *)
(* caller passed, K = 4096 or 512; each such device gets one, an INA260    *)
(* or INA3221 gets none.  (Compared in the 16 bits of the register.)       *)
(***************************************************************************)
Calibrated == {INA219, INA226, INA230, INA231}
CalibrationWrites(a) == SelectSeq(wlog, LAMBDA w : w[1] = a /\ w[2] = INA_CALIBRATION_REGISTER)

C11_CalibrationFormula ==
  Scanned =>
    \A k \in 1 .. Len(found) :
      IF found[k].type \in Calibrated
        THEN CalibrationWrites(found[k].address)
               = << <<found[k].address, INA_CALIBRATION_REGISTER,
                      CalibrationFor(found[k].type, call.maxBusAmps, call.microOhmR) % 65536>> >>
        ELSE CalibrationWrites(found[k].address) = <<>>

(***************************************************************************)
(* C12 (as claimed): for maxBusAmps in 1..31 and a shunt of 1000..1000000  *)
(* micro-ohm the calibration quotient initDevice computes for an INA219    *)
(* or INA226/230/231 during the scan is defined and at most 65535, and     *)
(* the calibration register receives exactly that quotient.                *)
(***************************************************************************)
CalibrationConstant(type) == IF type = INA219 THEN 409600000 ELSE 51200000
\* The divisor initDevice forms from the detail it has stored.
StoredDivisor(d) == MulDiv(d.current_LSB, d.microOhmR, 100000)

C12_CalibrationFits ==
  (/\ Scanned /\ Len(found) < maxDevices
   /\ call.maxBusAmps \in 1 .. 31 /\ call.microOhmR \in 1000 .. 1000000)
    => \A k \in 1 .. Len(found) :
         found[k].type \in Calibrated
           => /\ StoredDivisor(ee[found[k].slot]) > 0
              /\ CalibrationConstant(found[k].type) \div StoredDivisor(ee[found[k].slot]) <= 65535
              /\ CalibrationWrites(found[k].address)
                   = << <<found[k].address, INA_CALIBRATION_REGISTER,
                          CalibrationConstant(found[k].type) \div StoredDivisor(ee[found[k].slot])>> >>

(***************************************************************************)
(* C13: in the detail in use and in every stored record, current_LSB is    *)
(* maxBusAmps * 1000000000 / 32767 truncated for INA219 and                *)
(* INA226/230/231, with power_LSB 20 times that for INA219 and 25 times    *)
(* for INA226/230/231; for INA260 they are 1250000 and 10000000 whatever   *)
(* maxBusAmps is.                                                          *)
(***************************************************************************)
\* 1000000000 = 30518 * 32767 + 16694, so for amps <= 31 the quotient is:
ExpectedCurrentLSB(amps) == amps * 30518 + (amps * 16694) \div 32767

ScalingAsDocumented(d) ==
  /\ d.type = INA219
       => d.current_LSB = ExpectedCurrentLSB(d.maxBusAmps) /\ d.power_LSB = 20 * d.current_LSB
  /\ d.type \in {INA226, INA230, INA231}
       => d.current_LSB = ExpectedCurrentLSB(d.maxBusAmps) /\ d.power_LSB = 25 * d.current_LSB
  /\ d.type = INA260
       => d.current_LSB = 1250000 /\ d.power_LSB = 10000000

C13_ScalingConstants ==
  /\ ScalingAsDocumented(ina)
  /\ \A k \in DOMAIN ee : ScalingAsDocumented(ee[k])

\* A scan has stored an INA219 registered for 1 A and an INA260.
C13_Witness ==
  /\ Scanned
  /\ \E k \in DOMAIN ee : ee[k].type = INA219 /\ ee[k].maxBusAmps = 1 /\ ee[k].current_LSB = 30518
  /\ \E k \in DOMAIN ee : ee[k].type = INA260 /\ ee[k].maxBusAmps = 1

(***************************************************************************)
(* C14 (as claimed): after a scan called with maxBusAmps above 31, every   *)
(* record stored has maxBusAmps = 31 and, for INA219 and INA226/230/231,   *)
(* the current_LSB derived from 31.                                        *)
(***************************************************************************)
C14_ClampedAmps ==
  (Scanned /\ Len(found) < maxDevices /\ call.maxBusAmps > 31)
    => \A k \in 1 .. Len(found) :
         /\ ee[found[k].slot].maxBusAmps = 31
         /\ found[k].type \in Calibrated
              => ee[found[k].slot].current_LSB = ExpectedCurrentLSB(31)

(***************************************************************************)
(* C15 (as claimed): getBusMilliVolts(d) for a registered device d returns *)
(* (raw >> 3) * LSB / 100 when d is an INA219 (LSB 400) or an INA3221      *)
(* channel (LSB 800) and raw * 125 / 100 when d is an INA226/230/231/260,  *)
(* and for raw in 0..0x7FFF that value fits in 16 bits.                    *)
(***************************************************************************)
\* The variant device d was registered as by the scan.
RegisteredType(d) == found[d + 1].type
\* Every registered device has its own slot and the count is their number.
TableIntact == Len(found) = DeviceCount /\ DeviceCount > 0

ExpectedBusMilliVolts(type, raw) ==
  IF type = INA219 THEN ((raw \div 8) * 400) \div 100
  ELSE IF type \in {INA3221_0, INA3221_1, INA3221_2} THEN ((raw \div 8) * 800) \div 100
  ELSE (raw * 125) \div 100

C15_BusMilliVolts ==
  (/\ call.op = "getBusMilliVolts" /\ TableIntact
   /\ call.deviceNumber \in 0 .. (DeviceCount - 1)
   /\ call.value \in 0 .. 32767)
    => /\ ret = ExpectedBusMilliVolts(RegisteredType(call.deviceNumber), call.value)
       /\ ExpectedBusMilliVolts(RegisteredType(call.deviceNumber), call.value) <= 65535

(***************************************************************************)
(* C16 (as claimed): getShuntMicroVolts(d) for an INA3221 channel d        *)
(* returns (raw >> 3) * 40 for a non-negative raw reading and the          *)
(* sign-extended value for a negative one: raw 0xFFF8 gives -40.           *)
(***************************************************************************)
ExpectedShunt3221(raw) ==
  IF raw >= 32768 THEN ((raw - 65536) \div 8) * 40 ELSE (raw \div 8) * 40

C16_SignExtendedShunt ==
  (/\ call.op = "getShuntMicroVolts" /\ TableIntact
   /\ call.deviceNumber \in 0 .. (DeviceCount - 1)
   /\ RegisteredType(call.deviceNumber) \in {INA3221_0, INA3221_1, INA3221_2})
    => ret = ExpectedShunt3221(call.value)

(***************************************************************************)
(* C17 (as claimed): getBusMilliVolts reads the configuration register of  *)
(* the device and writes the same value back iff the device's operating    *)
(* mode is 2 or 3, getShuntMicroVolts iff it is 1 or 3; in modes 0 and     *)
(* 4..7 neither accessor writes a device register.                         *)
(***************************************************************************)
\* The operating mode of device d: the one in its stored record.
StoredMode(d) == ee[d].operatingMode

\* The accessor the last call ran re-arms in this mode.
RearmsIn(op, mode) ==
  \/ op = "getBusMilliVolts" /\ mode \in {2, 3}
  \/ op = "getShuntMicroVolts" /\ mode \in {1, 3}

\* The register writes of the last call are one write-back of the
\* configuration register of the device at address a.
WroteBack(a) == wlog = << <<a, INA_CONFIGURATION_REGISTER, hw[a].cfg>> >>

VoltageReadOf(c) ==
  /\ c.op \in {"getBusMilliVolts", "getShuntMicroVolts"}
  /\ c.deviceNumber \in 0 .. (DeviceCount - 1)

C17_RearmByMode ==
  (VoltageReadOf(call) /\ TableIntact)
    => IF RearmsIn(call.op, StoredMode(call.deviceNumber))
         THEN WroteBack(found[call.deviceNumber + 1].address)
         ELSE wlog = <<>>

(***************************************************************************)
(* C18 (as claimed): after setMode(m, i) the operating mode in effect for  *)
(* device i is m & 7: a voltage read of device i that follows finds        *)
(* m & 7 in the stored record and re-arms exactly as mode m & 7 requires,  *)
(* whatever other devices the setMode call went on to handle.              *)
(***************************************************************************)
ReadAfterSetMode ==
  /\ call.op = "setMode" /\ TableIntact
  /\ VoltageReadOf(call')
  /\ SelectedMod(call.deviceNumber, call'.deviceNumber, DeviceCount)

C18_ModeInEffect ==
  [][ReadAfterSetMode
       => /\ ee'[call'.deviceNumber].operatingMode = BitAnd(7, call.value)
          /\ (wlog' # <<>>) <=> RearmsIn(call'.op, BitAnd(7, call.value))]_vars

(***************************************************************************)
(* C19 (as claimed): waitForConversion leaves a targeted registered device *)
(* only after a poll has read the ready register of the device's variant   *)
(* with the conversion-ready bit set: mask 0x0002 of the bus-voltage       *)
(* register for INA219, 0x0008 of the mask/enable register for             *)
(* INA226/230/231/260, 0x0001 of register 0x0F for INA3221.                *)
(***************************************************************************)
ReadyMask(type) ==
  IF type = INA219 THEN 2
  ELSE IF type \in {INA226, INA230, INA231, INA260} THEN 8
  ELSE 1

\* The poll p read the ready register of the variant and found the bit set.
ReadyObserved(type, p) ==
  /\ p # <<>>
  /\ p[2] = StatusRegister(type)
  /\ BitAnd(p[3], ReadyMask(type)) # 0

\* The polling loop of device wi ends in this step.
WaitAdvances == pc = "wait" /\ (pc' = "idle" \/ wi' # wi)

C19_ReadyObserved ==
  [][(WaitAdvances /\ TableIntact /\ wi \in 0 .. (DeviceCount - 1))
       => ReadyObserved(RegisteredType(wi), polled')]_vars

(***************************************************************************)
(* C20: when every chip that is polled eventually answers a poll with its  *)
(* conversion-ready bit set, a call of waitForConversion returns, whatever *)
(* deviceNumber it is given and however many devices are registered.       *)
(***************************************************************************)
C20_WaitReturns == (call.op = "waitForConversion") ~> (pc = "idle")

\* A call that polled every one of at least two registered devices has
\* returned.
C20_Witness ==
  /\ call.op = "waitForConversion" /\ pc = "idle"
  /\ polled # <<>>
  /\ DeviceCount >= 2 /\ Len(targets) = DeviceCount

(***************************************************************************)
(* C21 (as claimed): an alert-configuration call that targets one          *)
(* registered device whose variant has no such alert (INA219 and INA3221   *)
(* channels for all six calls, INA260 for the two shunt-voltage alerts)    *)
(* returns false and writes no register of any device.                     *)
(***************************************************************************)
\* The variants that have the alert the call op configures.
Capable(op) ==
  IF op \in {"AlertOnShuntOverVoltage", "AlertOnShuntUnderVoltage"}
    THEN {INA226, INA230, INA231}
    ELSE {INA226, INA230, INA231, INA260}

\* The last call was an alert configuration of the one registered device d.
AlertOfOne ==
  /\ call.op \in AlertOps /\ TableIntact
  /\ call.deviceNumber \in 0 .. (DeviceCount - 1)

C21_IncapableRefused ==
  (AlertOfOne /\ RegisteredType(call.deviceNumber) \notin Capable(call.op))
    => rc = FALSE /\ wlog = <<>>

(***************************************************************************)
(* C22 (as claimed): after a scan by begin(A, R) with A <= 31 and          *)
(* R < 2^20, every record the scan stored (one per single-channel device,  *)
(* three per INA3221) holds maxBusAmps = A and microOhmR = R.              *)
(***************************************************************************)
C22_ScanParametersStored ==
  (Scanned /\ Len(found) < maxDevices /\ call.maxBusAmps <= 31 /\ call.microOhmR < 1048576)
    => \A k \in 1 .. Len(found) :
         /\ ee[found[k].slot].maxBusAmps = call.maxBusAmps
         /\ ee[found[k].slot].microOhmR = call.microOhmR

(***************************************************************************)
(* C23 (as claimed): for an INA3221 the detail rebuilt from the record of  *)
(* channel INA3221_0, INA3221_1, INA3221_2 has bus-voltage register 2, 4,  *)
(* 6 and shunt-voltage register 1, 3, 5, at the address of the chip.       *)
(***************************************************************************)
Channels == {INA3221_0, INA3221_1, INA3221_2}
ChannelBusRegister(type) == 2 + 2 * (type - INA3221_0)
ChannelShuntRegister(type) == 1 + 2 * (type - INA3221_0)

\* The detail the constructor builds from the stored record of found[k].
Reconstructed(k) == inaDet(ee[found[k].slot], build.u)

C23_ChannelRegisters ==
  (Scanned /\ Len(found) < maxDevices)
    => \A k \in 1 .. Len(found) :
         found[k].type \in Channels
           => /\ Reconstructed(k).type = found[k].type
              /\ Reconstructed(k).address = found[k].address
              /\ Reconstructed(k).busVoltageRegister = ChannelBusRegister(found[k].type)
              /\ Reconstructed(k).shuntVoltageRegister = ChannelShuntRegister(found[k].type)

(***************************************************************************)
(* C24 (as claimed): when initDevice programs the gain of an INA219, only  *)
(* the gain bits 11..12 of the configuration register and, when the bus    *)
(* range is narrowed, bit 13 change; every other bit keeps the value it    *)
(* had before: the post-reset value in a scan, the value left by the       *)
(* earlier calls when begin() is entered again.                            *)
(***************************************************************************)
\* Configuration bits other than the gain and the bus range.
OutsideGain(cfg) == BitAnd(cfg, 51199)

\* This step is a call of begin() with devices registered.
ReentryStep == call'.op = "begin" /\ ops' = ops + 1 /\ ~ScanNeeded(DeviceCount)
\* This step is the scan.
ScanStep == call'.op = "begin" /\ ops' = ops + 1 /\ ScanNeeded(DeviceCount)

GainMerged(a, before) ==
  /\ OutsideGain(hw'[a].cfg) = OutsideGain(before)
  /\ bitRead(hw'[a].cfg, INA219_BRNG_BIT) <= bitRead(before, INA219_BRNG_BIT)

C24_GainMerged ==
  [][\A a \in BusAddrs :
       bus[a].kind = "INA219"
         => /\ ReentryStep => GainMerged(a, hw[a].cfg)
            /\ ScanStep => GainMerged(a, bus[a].dflt)]_vars

(***************************************************************************)
(* C25 (as claimed): an alert-configuration call for all devices           *)
(* (deviceNumber 255) returns false when a registered device's variant     *)
(* has no such alert, for each of the six calls and wherever that device   *)
(* stands in the table.                                                    *)
(***************************************************************************)
AlertOfAll == call.op \in AlertOps /\ TableIntact /\ call.deviceNumber = UINT8_MAX

C25_AllOrNothing ==
  (AlertOfAll /\ \E k \in 1 .. Len(found) : found[k].type \notin Capable(call.op))
    => rc = FALSE

(***************************************************************************)
(* C26 (as claimed): every storage read or write of a public call, for any *)
(* deviceNumber argument, addresses a slot index below maxDevices.         *)
(***************************************************************************)
C26_StorageInRange ==
  \A k \in 1 .. Len(eelog) : eelog[k][2] \in Slots(maxDevices)

(***************************************************************************)
(* C27 (as claimed): after any sequence of begin, setMode and reset calls  *)
(* the operating mode in the stored record of every registered device      *)
(* equals bits 0..2 of that device's configuration register.               *)
(***************************************************************************)
ModeBits(cfg) == BitAnd(cfg, INA_CONFIG_MODE_MASK)

C27_StoredModeIsDeviceMode ==
  (TableIntact /\ pc = "idle")
    => \A k \in 1 .. Len(found) :
         ee[found[k].slot].operatingMode = ModeBits(hw[found[k].address].cfg)

(***************************************************************************)
(* C28 (as claimed): the bits setBusConversion and setShuntConversion set  *)
(* in the configuration register lie inside the mask the call clears, for  *)
(* every variant and conversion time: after the call the field holds the   *)
(* rate of this call alone and no bit outside the field has changed.       *)
(***************************************************************************)
\* The mask the call clears for a variant.
ClearedMask(op, type) ==
  IF op = "setBusConversion"
    THEN IF type = INA219 THEN INA219_CONFIG_BADC_MASK
         ELSE IF type \in {INA226} \cup Channels THEN INA226_CONFIG_BADC_MASK
         ELSE INA260_CONFIG_BADC_MASK
    ELSE IF type = INA219 THEN INA219_CONFIG_SADC_MASK
         ELSE IF type \in {INA226} \cup Channels THEN INA226_CONFIG_SADC_MASK
         ELSE INA260_CONFIG_SADC_MASK

\* This step is a conversion-time call that reached device k.
ConversionStep(k) ==
  /\ call'.op \in {"setBusConversion", "setShuntConversion"} /\ ops' = ops + 1
  /\ TableIntact /\ k \in 1 .. Len(found)
  /\ call'.deviceNumber = UINT8_MAX \/ call'.deviceNumber % DeviceCount = k - 1

\* The register of device k outside, and inside, the field of the call.
OutsideField(cfg, k) == BitAnd(cfg, BitNot16(ClearedMask(call'.op, found[k].type)))
InsideField(cfg, k) == BitAnd(cfg, ClearedMask(call'.op, found[k].type))

C28_ConversionFieldOnly ==
  [][\A k \in 1 .. Len(found) :
       ConversionStep(k)
         => /\ OutsideField(hw'[found[k].address].cfg, k) = OutsideField(hw[found[k].address].cfg, k)
            /\ InsideField(hw'[found[k].address].cfg, k)
                 = InsideField(IF call'.op = "setBusConversion"
                                 THEN BusConversionConfig(found[k].type, 0, call'.value)
                                 ELSE ShuntConversionConfig(found[k].type, 0, call'.value), k)
            /\ OutsideField(IF call'.op = "setBusConversion"
                              THEN BusConversionConfig(found[k].type, 0, call'.value)
                              ELSE ShuntConversionConfig(found[k].type, 0, call'.value), k) = 0]_vars

(***************************************************************************)
(* C29 (as claimed): for maxBusAmps in 1..31 and microOhmR in 1..2^20-1    *)
(* passed to begin, the divisor current_LSB * microOhmR / 100000 of the    *)
(* INA219 and INA226/230/231 calibration is not zero: the scan does not    *)
(* divide by zero.                                                         *)
(***************************************************************************)
C29_DivisorNotZero ==
  (/\ Scanned /\ Len(found) < maxDevices
   /\ call.maxBusAmps \in 1 .. 31 /\ call.microOhmR \in 1 .. 1048575)
    => \A k \in 1 .. Len(found) :
         found[k].type \in Calibrated => StoredDivisor(ee[found[k].slot]) # 0

(***************************************************************************)
(* C30 (as claimed): on INA226/230/231 the alert limit written by          *)
(* AlertOnShuntOverVoltage(true, mV) or AlertOnShuntUnderVoltage(true, mV) *)
(* reads, through the scaling getShuntMicroVolts applies to a raw shunt    *)
(* reading, as mV * 1000 microvolts up to one LSB (2.5 microvolts).        *)
(***************************************************************************)
\* The last call wrote the alert limit the device at address a now holds.
LimitWritten(a) ==
  \E i \in 1 .. Len(wlog) : wlog[i] = <<a, INA_ALERT_LIMIT_REGISTER, hw[a].limit>>

Distance(x, y) == IF x >= y THEN x - y ELSE y - x

C30_ShuntLimitRoundTrip ==
  (/\ call.op \in {"AlertOnShuntOverVoltage", "AlertOnShuntUnderVoltage"}
   /\ call.alertState /\ TableIntact)
    => \A k \in 1 .. Len(found) :
         (found[k].type \in {INA226, INA230, INA231} /\ LimitWritten(found[k].address))
           => Distance(ShuntMicroVolts(ee[found[k].slot], hw[found[k].address].limit, 0),
                       call.value * 1000) <= 3

====
